---- MODULE Spec2Model ----
(***************************************************************************)
(* vps-modern: the 1-D periodic Grid, the Field on it, the structure-of-   *)
(* arrays Particles container and the transport kernels.                   *)
(*                                                                         *)
(* value_type is double.  The model keeps its rounding: a value is an      *)
(* integer count of the smallest positive value (2^-FracBits), and a       *)
(* value is representable when it is m * 2^e with m < 2^Prec.  Every       *)
(* arithmetic operation rounds its exact result to the nearest             *)
(* representable value, ties to even, as IEEE-754 does; values below       *)
(* 2^Prec units are evenly spaced (gradual underflow).                     *)
(***************************************************************************)
EXTENDS Integers, Sequences, FiniteSets, TLC

VARIABLES
    grid,      \* the Grid object: a record of its private members, or NoGrid
    thrown,    \* the exception the last operation left: "none", "invalid_argument", "bad_alloc"
    call,      \* the last operation called: [op, arg, ...] and what it returned
    particles, \* the Particles object: its three std::vector members
    field,     \* the Field object: its grid_ pointer and its data_
    field2     \* a second Field object, the target of Field's copy and move

vars == <<grid, thrown, call, particles, field, field2>>

----------------------------------------------------------------------------
(* Bounds of the model *)

\* mantissa bits of value_type
Prec == 4
\* the smallest positive value is 2^-FracBits
FracBits == 8
\* Grid sizes tried
MaxCells == 4
\* domain bounds tried, in whole multiples of 1.0, each side of 0
MaxCoord == 2
\* positions tried, in whole multiples of 1.0, each side of 0
MaxPos == 5
\* cell indices tried by wrap_index, each side of 0
MaxIdx == 9
\* the largest size() a Particles object is taken to, and the largest capacity asked for
MaxParticles == 2
\* periods by which a position is shifted, each way
MaxPeriods == 2
\* calls of the transport kernels made in a row
MaxSteps == 3
\* samples pushed onto a set
MaxPush == 3
\* samples deposited one by one
MaxDeposits == 3
\* steps of the time loop of the driver (n_steps)
MaxDriverSteps == 2

----------------------------------------------------------------------------
(* value_type arithmetic *)

RECURSIVE Pow2(_)
Pow2(k) == IF k = 0 THEN 1 ELSE 2 * Pow2(k - 1)

\* 1.0
One == Pow2(FracBits)

\* +infinity (1.0 / 0.0)
Inf == Pow2(24)

Abs(a) == IF a < 0 THEN -a ELSE a

\* the distance between neighbouring representable values at magnitude q
RECURSIVE Spacing(_)
Spacing(q) == IF q < Pow2(Prec) THEN 1 ELSE 2 * Spacing(q \div 2)

\* num/den >= 0 rounded to the nearest representable value, ties to even
RoundPos(num, den) ==
    LET s == Spacing(num \div den)
        t == num \div (den * s)
        r == num - t * den * s
    IN  IF 2 * r < den * s THEN t * s
        ELSE IF 2 * r > den * s THEN (t + 1) * s
        ELSE IF t % 2 = 0 THEN t * s ELSE (t + 1) * s

\* num/den (den > 0) rounded to nearest, ties to even
RN(num, den) == IF num >= 0 THEN RoundPos(num, den) ELSE -RoundPos(-num, den)

IsFloat(a) == RN(a, 1) = a

Floats(lo, hi) == {a \in lo..hi : IsFloat(a)}

FAdd(a, b) == RN(a + b, 1)
FSub(a, b) == RN(a - b, 1)
FMul(a, b) == RN(a * b, One)
FDiv(a, b) ==
    IF b = 0 THEN (IF a > 0 THEN Inf ELSE -Inf)
    ELSE IF b > 0 THEN RN(a * One, b) ELSE RN(-(a * One), -b)

\* std::fmod: the remainder of a/b truncated toward zero, with the sign of a; exact
Fmod(a, b) == IF a >= 0 THEN a % Abs(b) ELSE -((-a) % Abs(b))

\* static_cast<value_type>(size_type)
ToFloat(n) == RN(n * One, 1)

\* static_cast<std::ptrdiff_t>(value_type): truncation toward zero
Trunc(a) == IF a >= 0 THEN a \div One ELSE -((-a) \div One)

\* the built-in % of std::ptrdiff_t: truncated division, the sign of the dividend
CRem(i, n) == IF i >= 0 THEN i % n ELSE -((-i) % n)

----------------------------------------------------------------------------
(* Grid *)

NoGrid == [n_cells_ |-> 0]

\* Grid::Grid: the member initialisers, for arguments the body accepts
GridMembers(n_cells, x_min, x_max) ==
    LET length == FSub(x_max, x_min)
        dx == FDiv(length, ToFloat(n_cells))
    IN  [n_cells_ |-> n_cells, x_min_ |-> x_min, x_max_ |-> x_max,
         length_ |-> length, dx_ |-> dx, inv_dx_ |-> FDiv(One, dx),
         bc_ |-> "Periodic"]

\* Grid::Grid: the conditions under which the body throws std::invalid_argument
GridCtorThrows(n_cells, x_min, x_max) == n_cells = 0 \/ x_min >= x_max

cell_left(g, i) == FAdd(g.x_min_, FMul(ToFloat(i), g.dx_))

wrap_position(g, x) ==
    IF g.bc_ = "Periodic"
    THEN LET x_rel0 == FSub(x, g.x_min_)
             x_rel1 == Fmod(x_rel0, g.length_)
             x_rel2 == IF x_rel1 < 0 THEN FAdd(x_rel1, g.length_) ELSE x_rel1
         IN  FAdd(g.x_min_, x_rel2)
    ELSE x

\* cell_index without the clamp to the last cell
cell_index_NoClamp(g, x) ==
    LET x_wrapped == wrap_position(g, x)
        idx0 == Trunc(FMul(FSub(x_wrapped, g.x_min_), g.inv_dx_))
    IN  IF idx0 < 0 THEN 0 ELSE idx0

cell_index(g, x) ==
    LET x_wrapped == wrap_position(g, x)
        idx0 == Trunc(FMul(FSub(x_wrapped, g.x_min_), g.inv_dx_))
        idx1 == IF idx0 < 0 THEN 0 ELSE idx0
    IN  IF idx1 >= g.n_cells_ THEN g.n_cells_ - 1 ELSE idx1

\* wrap_index without the correction of a negative remainder
wrap_index_NoSignFix(g, i) == CRem(i, g.n_cells_)

wrap_index(g, i) ==
    IF g.bc_ = "Periodic"
    THEN LET n == g.n_cells_
             i1 == CRem(i, n)
         IN  IF i1 < 0 THEN i1 + n ELSE i1
    ELSE IF i < 0 THEN 0
         ELSE IF i >= g.n_cells_ THEN g.n_cells_ - 1 ELSE i

contains(g, x) == x >= g.x_min_ /\ x < g.x_max_

----------------------------------------------------------------------------
(* std::vector<value_type>: its elements d and its capacity cap *)

EmptyVec == [d |-> <<>>, cap |-> 0]

Max(a, b) == IF a >= b THEN a ELSE b

Fill(n, val) == [i \in 1..n |-> val]

\* std::vector(n, val)
VecOf(n, val) == [d |-> Fill(n, val), cap |-> n]

\* a reserve that drops the elements when it allocates
VecReserve_Clears(vec, n) == IF n > vec.cap THEN [d |-> <<>>, cap |-> n] ELSE vec

\* a resize that value-initialises the new elements whatever val is
VecResize_ZeroFill(vec, n, val) ==
    IF n <= Len(vec.d) THEN [vec EXCEPT !.d = SubSeq(vec.d, 1, n)]
    ELSE [d |-> vec.d \o Fill(n - Len(vec.d), 0), cap |-> Max(vec.cap, n)]

\* reserve(n) allocates exactly when n exceeds the capacity
ReserveAllocates(vec, n) == n > vec.cap
VecReserve(vec, n) == IF n > vec.cap THEN [vec EXCEPT !.cap = n] ELSE vec

\* resize(n, val) allocates exactly when n exceeds the capacity; the new
\* capacity is size + max(size, n - size)
ResizeAllocates(vec, n) == n > vec.cap
VecResize(vec, n, val) ==
    IF n <= Len(vec.d) THEN [vec EXCEPT !.d = SubSeq(vec.d, 1, n)]
    ELSE [d |-> vec.d \o Fill(n - Len(vec.d), val),
          cap |-> IF n > vec.cap
                  THEN Len(vec.d) + Max(Len(vec.d), n - Len(vec.d))
                  ELSE vec.cap]

\* push_back(val) allocates exactly when the vector is full; the capacity doubles
PushAllocates(vec) == Len(vec.d) = vec.cap
VecPushBack(vec, val) ==
    [d |-> Append(vec.d, val),
     cap |-> IF Len(vec.d) = vec.cap THEN Max(1, 2 * vec.cap) ELSE vec.cap]

VecPopBack(vec) == [vec EXCEPT !.d = SubSeq(vec.d, 1, Len(vec.d) - 1)]

VecClear(vec) == [vec EXCEPT !.d = <<>>]

----------------------------------------------------------------------------
(* Particles and Field objects *)

\* Particles(): three empty vectors
NoParticles == [x_ |-> EmptyVec, v_ |-> EmptyVec, f_ |-> EmptyVec]

\* no Field constructed yet
NoField == [grid_ |-> "null", data_ |-> <<>>]

----------------------------------------------------------------------------
(* Construction of a Grid from arbitrary arguments *)

CtorCells == 0..MaxCells
\* the bounds passed: the multiples of 0.5 within MaxCoord, and the values nearest zero
CtorCoords ==
    {a \in -(MaxCoord * One)..(MaxCoord * One) : a % (One \div 2) = 0}
        \cup Floats(-Pow2(Prec), Pow2(Prec))

InitCtor ==
    /\ grid = NoGrid
    /\ thrown = "none"
    /\ call = [op |-> "none"]
    /\ particles = NoParticles
    /\ field = NoField
    /\ field2 = NoField

GridCtor(n_cells, x_min, x_max) ==
    /\ grid = NoGrid
    /\ thrown = "none"
    /\ call' = [op |-> "Grid", arg |-> <<n_cells, x_min, x_max>>]
    /\ \/ /\ GridCtorThrows(n_cells, x_min, x_max)
          /\ thrown' = "invalid_argument"
          /\ grid' = grid
       \/ /\ ~GridCtorThrows(n_cells, x_min, x_max)
          /\ grid' = GridMembers(n_cells, x_min, x_max)
          /\ thrown' = thrown
    /\ UNCHANGED <<particles, field, field2>>

NextCtor ==
    \E n_cells \in CtorCells : \E x_min \in CtorCoords : \E x_max \in CtorCoords :
        GridCtor(n_cells, x_min, x_max)

SpecCtor == InitCtor /\ [][NextCtor]_vars

----------------------------------------------------------------------------
(* Calls of Grid's const member functions on a constructed Grid *)

\* domain bounds of the Grids queried: the multiples of 0.5 within MaxCoord
ProbeCoords == {a \in CtorCoords : a % (One \div 2) = 0 /\ IsFloat(a)}

ProbeGrids ==
    {GridMembers(n_cells, ab[1], ab[2]) :
        n_cells \in 1..MaxCells,
        ab \in {p \in ProbeCoords \X ProbeCoords : ~GridCtorThrows(1, p[1], p[2])}}

Positions == Floats(-(MaxPos * One), MaxPos * One)
Indices == -MaxIdx..MaxIdx

InitGrid ==
    /\ grid \in ProbeGrids
    /\ thrown = "none"
    /\ call = [op |-> "none"]
    /\ particles = NoParticles
    /\ field = NoField
    /\ field2 = NoField

WrapPosition(x) ==
    /\ call.op = "none"
    /\ call' = [op |-> "wrap_position", arg |-> x, ret |-> wrap_position(grid, x)]
    /\ UNCHANGED <<grid, thrown, particles, field, field2>>

CellIndex(x) ==
    /\ call.op = "none"
    /\ call' = [op |-> "cell_index", arg |-> x, ret |-> cell_index(grid, x)]
    /\ UNCHANGED <<grid, thrown, particles, field, field2>>

WrapIndex(i) ==
    /\ call.op = "none"
    /\ call' = [op |-> "wrap_index", arg |-> i, ret |-> wrap_index(grid, i)]
    /\ UNCHANGED <<grid, thrown, particles, field, field2>>

Contains(x) ==
    /\ call.op = "none"
    /\ call' = [op |-> "contains", arg |-> x, ret |-> contains(grid, x)]
    /\ UNCHANGED <<grid, thrown, particles, field, field2>>

CellLeft(i) ==
    /\ call.op = "none"
    /\ i < grid.n_cells_
    /\ call' = [op |-> "cell_left", arg |-> i, ret |-> cell_left(grid, i)]
    /\ UNCHANGED <<grid, thrown, particles, field, field2>>

NextGrid ==
    \/ \E x \in Positions : WrapPosition(x)
    \/ \E x \in Positions : CellIndex(x)
    \/ \E i \in Indices : WrapIndex(i)
    \/ \E x \in Positions : Contains(x)
    \/ \E i \in 0..(MaxCells - 1) : CellLeft(i)

SpecGrid == InitGrid /\ [][NextGrid]_vars

----------------------------------------------------------------------------
(* Claims about Grid *)

C3_WrapIdempotent ==
    call.op = "wrap_position" =>
        /\ wrap_position(grid, call.ret) = call.ret
        /\ contains(grid, call.arg) => call.ret = call.arg

\* C4: cell_index(wrap_position(x)) = cell_index(x) for every position x.
C4_CellIndexOfWrapped ==
    call.op = "cell_index" =>
        cell_index(grid, wrap_position(grid, call.arg)) = call.ret

\* floor((wrap_position(x) - x_min) / dx), the quotient taken exactly
FloorCell(g, x) == (wrap_position(g, x) - g.x_min_) \div g.dx_

\* C5: cell_index(x) is an index in [0, n-1] equal to
\* floor((wrap_position(x) - x_min) / dx), and the left edge of cell i maps to cell i.
C5_CellIndexIsFloor ==
    call.op = "cell_index" =>
        /\ call.ret \in 0..(grid.n_cells_ - 1)
        /\ call.ret = FloorCell(grid, call.arg)
        /\ \A i \in 0..(grid.n_cells_ - 1) :
              call.arg = cell_left(grid, i) => call.ret = i

\* C6: wrap_index(i) is in [0, n) and wrap_index(i) = wrap_index(i + k*n) for
\* every signed i and every integer k.
C6_WrapIndexPeriodic ==
    call.op = "wrap_index" =>
        /\ call.ret \in 0..(grid.n_cells_ - 1)
        /\ \A k \in -MaxIdx..MaxIdx :
              wrap_index(grid, call.arg + k * grid.n_cells_) = call.ret

\* a negative index and an index beyond n have been wrapped onto an inner cell
C6_Witness ==
    /\ call.op = "wrap_index"
    /\ call.arg < 0
    /\ grid.n_cells_ > 2
    /\ call.ret = grid.n_cells_ - 1

\* C10: construction throws invalid_argument exactly when n_cells = 0 or
\* x_min >= x_max, and otherwise yields n >= 1, length = x_max - x_min,
\* dx = length / n (each as value_type computes it) and dx > 0.
C10_CtorContract ==
    call.op = "Grid" =>
        /\ thrown = "invalid_argument" <=>
              (call.arg[1] = 0 \/ call.arg[2] >= call.arg[3])
        /\ thrown = "none" =>
              /\ grid.n_cells_ = call.arg[1]
              /\ grid.n_cells_ >= 1
              /\ grid.length_ = FSub(call.arg[3], call.arg[2])
              /\ grid.dx_ = FDiv(grid.length_, ToFloat(grid.n_cells_))
              /\ grid.dx_ > 0

----------------------------------------------------------------------------
(* Particles: the container's operations, any allocation of which may fail *)

Size(p) == Len(p.x_.d)

Lens(p) == <<Len(p.x_.d), Len(p.v_.d), Len(p.f_.d)>>

SameLen(p) == Len(p.x_.d) = Len(p.v_.d) /\ Len(p.v_.d) = Len(p.f_.d)

\* the (x, v, f) triples passed to the constructor, resize and push_back
Triples == {<<One, 2 * One, 3 * One>>}

\* the time steps and the acceleration passed to the transport kernels
TimeSteps == {One \div 2}
Accelerations == {2 * One}

\* advance_positions: x[i] += v[i] * dt, for each i below size()
advance_positions(p, dt) ==
    [p EXCEPT !.x_.d = [i \in 1..Len(p.x_.d) |-> FAdd(p.x_.d[i], FMul(p.v_.d[i], dt))]]

\* advance_velocities: v[i] += acceleration * dt, for each i below size()
advance_velocities(p, acceleration, dt) ==
    LET dv == FMul(acceleration, dt)
    IN  [p EXCEPT !.v_.d = [i \in 1..Len(p.v_.d) |->
                               IF i <= Len(p.x_.d) THEN FAdd(p.v_.d[i], dv) ELSE p.v_.d[i]]]

\* Particles::reserve: x_, v_, f_ in turn
reserve(p, n) ==
    [x_ |-> VecReserve(p.x_, n), v_ |-> VecReserve(p.v_, n), f_ |-> VecReserve(p.f_, n)]

\* a resize that leaves the weights alone
resize_SkipsF(p, n, t) ==
    [x_ |-> VecResize(p.x_, n, t[1]), v_ |-> VecResize(p.v_, n, t[2]), f_ |-> p.f_]

\* Particles::resize, both forms (t is the triple of fill values): x_, v_, f_ in turn
resize(p, n, t) ==
    [x_ |-> VecResize(p.x_, n, t[1]), v_ |-> VecResize(p.v_, n, t[2]),
     f_ |-> VecResize(p.f_, n, t[3])]

\* a push_back that passes f_val to v_ and v_val to f_
push_back_Swapped(p, t) ==
    [x_ |-> VecPushBack(p.x_, t[1]), v_ |-> VecPushBack(p.v_, t[3]),
     f_ |-> VecPushBack(p.f_, t[2])]

\* a pop_back that leaves the weights alone
pop_back_KeepsF(p) ==
    [x_ |-> VecPopBack(p.x_), v_ |-> VecPopBack(p.v_), f_ |-> p.f_]

\* Particles::push_back: x_, v_, f_ in turn
push_back(p, t) ==
    [x_ |-> VecPushBack(p.x_, t[1]), v_ |-> VecPushBack(p.v_, t[2]),
     f_ |-> VecPushBack(p.f_, t[3])]

\* Particles::pop_back: x_, v_, f_ in turn
pop_back(p) ==
    [x_ |-> VecPopBack(p.x_), v_ |-> VecPopBack(p.v_), f_ |-> VecPopBack(p.f_)]

\* Particles::clear
clear(p) == [x_ |-> VecClear(p.x_), v_ |-> VecClear(p.v_), f_ |-> VecClear(p.f_)]

\* Particles(const Particles&): each vector copied into storage of its own size
CopyOf(p) ==
    [x_ |-> [d |-> p.x_.d, cap |-> Len(p.x_.d)],
     v_ |-> [d |-> p.v_.d, cap |-> Len(p.v_.d)],
     f_ |-> [d |-> p.f_.d, cap |-> Len(p.f_.d)]]

\* what an exception thrown by the statement on member k leaves: the members
\* before k as in q (the statement done), member k and those after it as in p
ThrowsAt(p, q, k) ==
    [x_ |-> IF k > 1 THEN q.x_ ELSE p.x_,
     v_ |-> IF k > 2 THEN q.v_ ELSE p.v_,
     f_ |-> p.f_]

Member(p, k) == IF k = 1 THEN p.x_ ELSE IF k = 2 THEN p.v_ ELSE p.f_

InitParticles ==
    /\ grid = NoGrid
    /\ thrown = "none"
    /\ call = [op |-> "Particles"]
    /\ particles = NoParticles
    /\ field = NoField
    /\ field2 = NoField

\* Particles(capacity): reserve on the new object, which replaces the one held
CtorCapacity(capacity) ==
    /\ call' = [op |-> "Particles", arg |-> <<capacity>>]
    /\ \/ /\ particles' = reserve(NoParticles, capacity)
          /\ thrown' = "none"
       \/ /\ capacity > 0
          /\ particles' = particles
          /\ thrown' = "bad_alloc"
    /\ UNCHANGED <<grid, field, field2>>

\* Particles(size, x_val, v_val, f_val)
CtorSized(size, t) ==
    /\ call' = [op |-> "Particles", arg |-> <<size, t>>]
    /\ \/ /\ particles' = [x_ |-> VecOf(size, t[1]), v_ |-> VecOf(size, t[2]),
                           f_ |-> VecOf(size, t[3])]
          /\ thrown' = "none"
       \/ /\ size > 0
          /\ particles' = particles
          /\ thrown' = "bad_alloc"
    /\ UNCHANGED <<grid, field, field2>>

\* Particles(const Particles&): the copy is the object followed from here on
CopyCtor ==
    /\ call' = [op |-> "copy"]
    /\ \/ /\ particles' = CopyOf(particles)
          /\ thrown' = "none"
       \/ /\ Lens(particles) # <<0, 0, 0>>
          /\ particles' = particles
          /\ thrown' = "bad_alloc"
    /\ UNCHANGED <<grid, field, field2>>

\* Particles(Particles&&) noexcept: the moved-from object is the one followed
MoveFrom ==
    /\ call' = [op |-> "move"]
    /\ particles' = NoParticles
    /\ thrown' = "none"
    /\ UNCHANGED <<grid, field, field2>>

Reserve(n) ==
    /\ call' = [op |-> "reserve", arg |-> <<n>>]
    /\ \/ /\ particles' = reserve(particles, n)
          /\ thrown' = "none"
       \/ \E k \in 1..3 :
          /\ ReserveAllocates(Member(particles, k), n)
          /\ particles' = ThrowsAt(particles, reserve(particles, n), k)
          /\ thrown' = "bad_alloc"
    /\ UNCHANGED <<grid, field, field2>>

\* resize(n) is resize(n, 0, 0, 0): std::vector::resize(n) value-initialises
Resize(n, t) ==
    /\ call' = [op |-> "resize", arg |-> <<n, t>>]
    /\ \/ /\ particles' = resize(particles, n, t)
          /\ thrown' = "none"
       \/ \E k \in 1..3 :
          /\ ResizeAllocates(Member(particles, k), n)
          /\ particles' = ThrowsAt(particles, resize(particles, n, t), k)
          /\ thrown' = "bad_alloc"
    /\ UNCHANGED <<grid, field, field2>>

Clear ==
    /\ call' = [op |-> "clear"]
    /\ particles' = clear(particles)
    /\ thrown' = "none"
    /\ UNCHANGED <<grid, field, field2>>

PushBack(t) ==
    /\ \A k \in 1..3 : Len(Member(particles, k).d) < MaxParticles
    /\ call' = [op |-> "push_back", arg |-> t]
    /\ \/ /\ particles' = push_back(particles, t)
          /\ thrown' = "none"
       \/ \E k \in 1..3 :
          /\ PushAllocates(Member(particles, k))
          /\ particles' = ThrowsAt(particles, push_back(particles, t), k)
          /\ thrown' = "bad_alloc"
    /\ UNCHANGED <<grid, field, field2>>

\* pop_back on a set none of whose vectors is empty (its contract: popping an
\* empty std::vector is undefined)
PopBack ==
    /\ \A k \in 1..3 : Len(Member(particles, k).d) > 0
    /\ call' = [op |-> "pop_back"]
    /\ particles' = pop_back(particles)
    /\ thrown' = "none"
    /\ UNCHANGED <<grid, field, field2>>

\* the kernels index v with the indices of x: called where that is in range,
\* and on samples not advanced before (which bounds the values reached)
AdvancePositions(dt) ==
    /\ Len(particles.v_.d) >= Size(particles)
    /\ \A i \in 1..Size(particles) : particles.x_.d[i] < One
    /\ call' = [op |-> "advance_positions", arg |-> <<dt>>]
    /\ particles' = advance_positions(particles, dt)
    /\ thrown' = "none"
    /\ UNCHANGED <<grid, field, field2>>

AdvanceVelocities(acceleration, dt) ==
    /\ Len(particles.v_.d) >= Size(particles)
    /\ \A i \in 1..Len(particles.v_.d) : particles.v_.d[i] < One
    /\ call' = [op |-> "advance_velocities", arg |-> <<acceleration, dt>>]
    /\ particles' = advance_velocities(particles, acceleration, dt)
    /\ thrown' = "none"
    /\ UNCHANGED <<grid, field, field2>>

NextParticles ==
    \/ \E capacity \in {0, MaxParticles} : CtorCapacity(capacity)
    \/ \E size \in 0..MaxParticles : \E t \in Triples : CtorSized(size, t)
    \/ CopyCtor
    \/ MoveFrom
    \/ \E n \in {0, 1, MaxParticles} : Reserve(n)
    \/ \E n \in 0..MaxParticles : \E t \in Triples \cup {<<0, 0, 0>>} : Resize(n, t)
    \/ Clear
    \/ \E t \in Triples : PushBack(t)
    \/ PopBack
    \/ \E dt \in TimeSteps : AdvancePositions(dt)
    \/ \E a \in Accelerations : \E dt \in TimeSteps : AdvanceVelocities(a, dt)

SpecParticles == InitParticles /\ [][NextParticles]_vars

----------------------------------------------------------------------------
(* Claims about Particles *)

\* C7: x, v and f have the same length, which is size(), in every state reached
\* through operations that completed: an operation that returns normally on a
\* set whose three lengths agree leaves the three lengths in agreement.
C7_SameLength ==
    [][(SameLen(particles) /\ thrown' = "none") => SameLen(particles')]_vars

\* a resize has grown a set of equal lengths and returned
C7_Witness ==
    /\ call.op = "resize"
    /\ thrown = "none"
    /\ Size(particles) = MaxParticles
    /\ SameLen(particles)

\* C8: push_back is atomic under allocation failure: when it throws, the three
\* lengths are what they were before the call, and when it returns each has
\* grown by one.
C8_PushBackAtomic ==
    [][(call'.op = "push_back" /\ SameLen(particles)) =>
          IF thrown' = "bad_alloc"
          THEN Lens(particles') = Lens(particles)
          ELSE Lens(particles') = [k \in 1..3 |-> Lens(particles)[k] + 1]]_vars

\* C19: a resize(n, x0, v0, f0) that returns leaves exactly n samples: in each
\* of x, v and f the indices below min(old length, n) keep their values and every
\* index from the old length on holds the fill value; resize(n) is the same
\* with the triple (0, 0, 0).
C19_Resize ==
    [][(call'.op = "resize" /\ thrown' = "none") =>
          LET n == call'.arg[1]
              t == call'.arg[2]
          IN  /\ Size(particles') = n
              /\ \A k \in 1..3 :
                    LET old == Member(particles, k).d
                        new == Member(particles', k).d
                    IN  /\ Len(new) = n
                        /\ \A i \in 1..n :
                              new[i] = IF i <= Len(old) THEN old[i] ELSE t[k]]_vars

\* resize(MaxParticles, 1.0, 2.0, 3.0) has returned on a set that held a zero
\* sample: the first sample is kept and the last slot holds the triple given
C19_Witness ==
    /\ call.op = "resize"
    /\ call.arg = <<MaxParticles, <<One, 2 * One, 3 * One>>>>
    /\ thrown = "none"
    /\ SameLen(particles)
    /\ Size(particles) = MaxParticles
    /\ <<particles.x_.d[1], particles.v_.d[1], particles.f_.d[1]>> = <<0, 0, 0>>
    /\ <<particles.x_.d[MaxParticles], particles.v_.d[MaxParticles],
         particles.f_.d[MaxParticles]>> = <<One, 2 * One, 3 * One>>

\* C20: reserve(n) changes neither size() nor any stored value, whatever n and
\* the state of the set, and whether it returns or throws; when it returns, no
\* capacity has shrunk and each is at least n.
C20_ReserveFrame ==
    [][call'.op = "reserve" =>
          /\ Size(particles') = Size(particles)
          /\ \A k \in 1..3 :
                /\ Member(particles', k).d = Member(particles, k).d
                /\ Member(particles', k).cap >= Member(particles, k).cap
                /\ thrown' = "none" => Member(particles', k).cap >= call'.arg[1]]_vars

\* reserve(MaxParticles) has returned on a set that holds a sample
C20_Witness ==
    /\ call.op = "reserve"
    /\ call.arg = <<MaxParticles>>
    /\ thrown = "none"
    /\ Size(particles) > 0
    /\ Size(particles) < MaxParticles
    /\ particles.x_.cap = MaxParticles

----------------------------------------------------------------------------
(* Field: a vector of cell values and a pointer to the Grid the caller holds *)

\* Field::Field(grid, initial_value): grid_ points at the caller's Grid
FieldOf(g, initial_value) == [grid_ |-> "grid", data_ |-> Fill(g.n_cells_, initial_value)]

\* Field::fill
fill(f, val) == [f EXCEPT !.data_ = [i \in 1..Len(f.data_) |-> val]]

\* Field::zero
zero(f) == fill(f, 0)

\* Field(Field&&) and operator=(Field&&): what is left in the source, whose
\* vector has given up its storage and whose pointer is copied, not cleared
MovedFrom(f) == [f EXCEPT !.data_ = <<>>]

\* compute_density, the loop over the samples from the k-th on
RECURSIVE DepositFrom(_, _, _, _, _)
DepositFrom(data, p, g, inv_dx, k) ==
    IF k > Size(p) THEN data
    ELSE LET i == cell_index(g, p.x_.d[k]) + 1
         IN  DepositFrom([data EXCEPT ![i] = FAdd(data[i], FMul(p.f_.d[k], inv_dx))],
                         p, g, inv_dx, k + 1)

\* compute_density that does not clear the density first
compute_density_NoZero(p, g, density) ==
    [density EXCEPT !.data_ = DepositFrom(density.data_, p, g, FDiv(One, g.dx_), 1)]

\* compute_density(particles, grid, density)
compute_density(p, g, density) ==
    [density EXCEPT !.data_ = DepositFrom(zero(density).data_, p, g, FDiv(One, g.dx_), 1)]

\* the grids Fields are built on, the values written to cells, the samples deposited
FieldGrids == {GridMembers(n, 0, b) : n \in 1..MaxCells, b \in {One, 2 * One}}
FieldVals == {0, One}
FieldParticles ==
    [x_ |-> [d |-> <<One \div 2, 3 * One>>, cap |-> 2],
     v_ |-> [d |-> <<0, 0>>, cap |-> 2],
     f_ |-> [d |-> <<One, One>>, cap |-> 2]]

InitField ==
    /\ grid \in FieldGrids
    /\ thrown = "none"
    /\ call = [op |-> "none"]
    /\ particles = FieldParticles
    /\ field = NoField
    /\ field2 = NoField

\* Field field(grid, initial_value)
FieldCtor(initial_value) ==
    /\ field = NoField
    /\ field' = FieldOf(grid, initial_value)
    /\ call' = [op |-> "Field"]
    /\ UNCHANGED <<grid, thrown, particles, field2>>

\* field[i] = val, and values()[i] = val (the span is over data_)
Store(i, val) ==
    /\ field # NoField
    /\ i < Len(field.data_)
    /\ field' = [field EXCEPT !.data_[i + 1] = val]
    /\ call' = [op |-> "operator[]"]
    /\ UNCHANGED <<grid, thrown, particles, field2>>

FieldFill(val) ==
    /\ field # NoField
    /\ field' = fill(field, val)
    /\ call' = [op |-> "fill"]
    /\ UNCHANGED <<grid, thrown, particles, field2>>

FieldZero ==
    /\ field # NoField
    /\ field' = zero(field)
    /\ call' = [op |-> "zero"]
    /\ UNCHANGED <<grid, thrown, particles, field2>>

\* compute_density on a Field with a cell for every index cell_index returns
Deposit ==
    /\ field # NoField
    /\ Len(field.data_) = grid.n_cells_
    /\ field' = compute_density(particles, grid, field)
    /\ call' = [op |-> "compute_density"]
    /\ UNCHANGED <<grid, thrown, particles, field2>>

\* Field field2(field)
FieldCopyCtor ==
    /\ field # NoField
    /\ field2 = NoField
    /\ field2' = field
    /\ call' = [op |-> "Field(const Field&)"]
    /\ UNCHANGED <<grid, thrown, particles, field>>

\* Field field2(std::move(field))
FieldMoveCtor ==
    /\ field # NoField
    /\ field2 = NoField
    /\ field2' = field
    /\ field' = MovedFrom(field)
    /\ call' = [op |-> "Field(Field&&)"]
    /\ UNCHANGED <<grid, thrown, particles>>

\* field = field2
FieldCopyAssign ==
    /\ field # NoField
    /\ field2 # NoField
    /\ field' = field2
    /\ call' = [op |-> "operator=(const Field&)"]
    /\ UNCHANGED <<grid, thrown, particles, field2>>

\* field = std::move(field2)
FieldMoveAssign ==
    /\ field # NoField
    /\ field2 # NoField
    /\ field' = field2
    /\ field2' = MovedFrom(field2)
    /\ call' = [op |-> "operator=(Field&&)"]
    /\ UNCHANGED <<grid, thrown, particles>>

\* grid = other, by copy or by move (Grid has no resource: both copy each member)
GridAssign(other) ==
    /\ grid' = other
    /\ call' = [op |-> "Grid::operator="]
    /\ UNCHANGED <<thrown, particles, field, field2>>

NextField ==
    \/ \E val \in FieldVals : FieldCtor(val)
    \/ \E i \in 0..(MaxCells - 1) : \E val \in FieldVals : Store(i, val)
    \/ \E val \in FieldVals : FieldFill(val)
    \/ FieldZero
    \/ Deposit
    \/ FieldCopyCtor
    \/ FieldMoveCtor
    \/ FieldCopyAssign
    \/ FieldMoveAssign
    \/ \E other \in FieldGrids : GridAssign(other)

SpecField == InitField /\ [][NextField]_vars

----------------------------------------------------------------------------
(* Claims about Field *)

\* C9: at all times the number of values a Field stores is n_cells() of the
\* Grid it references, under every operation of Field and Grid.
C9_FieldSizeIsCells ==
    \A f \in {field, field2} : f # NoField => Len(f.data_) = grid.n_cells_

----------------------------------------------------------------------------
(* Deposition: compute_density on samples placed anywhere on the line *)

DepositGrids == {g \in ProbeGrids : g.x_min_ \in {-One, 0}}
\* positions inside the domain, outside it on either side, and just below zero
DepositPositions == {x \in Positions : x % (2 * One) = 0} \cup {-1}
Weights == {One, 5 * (One \div 4)}

\* samples at rest with the positions xs and the weights fs
SamplesOf(xs, fs) ==
    [x_ |-> [d |-> xs, cap |-> Len(xs)],
     v_ |-> [d |-> Fill(Len(xs), 0), cap |-> Len(xs)],
     f_ |-> [d |-> fs, cap |-> Len(xs)]]

DepositSets ==
    UNION {{SamplesOf(xs, fs) : xs \in [1..N -> DepositPositions], fs \in [1..N -> Weights]} :
           N \in 0..MaxParticles}

\* a Grid, samples on it, and a density Field holding earlier contents
InitDeposit ==
    /\ grid \in DepositGrids
    /\ thrown = "none"
    /\ call = [op |-> "none"]
    /\ particles \in DepositSets
    /\ field = FieldOf(grid, One)
    /\ field2 = NoField

ComputeDensity ==
    /\ call.op = "none"
    /\ field' = compute_density(particles, grid, field)
    /\ call' = [op |-> "compute_density"]
    /\ UNCHANGED <<grid, thrown, particles, field2>>

NextDeposit == ComputeDensity

SpecDeposit == InitDeposit /\ [][NextDeposit]_vars

----------------------------------------------------------------------------
(* Claims about deposition *)

RECURSIVE SumSeq(_)
SumSeq(q) == IF q = <<>> THEN 0 ELSE q[1] + SumSeq(Tail(q))

\* sum of field[i] * dx over the cells, and the sum of the weights, both exact
\* and in the same unit
Deposited == SumSeq(field.data_) * grid.dx_
TotalWeight == SumSeq(particles.f_.d) * One

\* C1: after compute_density the sum over the cells of field[i] * dx is the sum
\* of the weights to within rounding, wherever the samples are: each weight is
\* multiplied by the rounded 1/dx, rounded, and added at most size() - 1 times,
\* so for size() = N the relative error is at most (N+1)u / (1 - (N+1)u), with
\* u = 2^-Prec the unit roundoff.
C1_DepositConserves ==
    call.op = "compute_density" =>
        LET K == Size(particles) + 1
        IN  Abs(Deposited - TotalWeight) * (Pow2(Prec) - K) <= K * TotalWeight

\* samples of equal weight, one of them outside the domain, have been deposited
\* on a Grid of several cells over earlier contents
C1_Witness ==
    /\ call.op = "compute_density"
    /\ Size(particles) = MaxParticles
    /\ grid.n_cells_ > 1
    /\ \E k \in 1..Size(particles) : ~contains(grid, particles.x_.d[k])
    /\ \A k \in 1..Size(particles) : particles.f_.d[k] = particles.f_.d[1]
    /\ Deposited # 0

\* C1 as stated: the sum over the cells of field[i] * dx equals the sum of the
\* weights
C1_DepositExact ==
    call.op = "compute_density" => Deposited = TotalWeight

----------------------------------------------------------------------------
(* Interpolation: Grid::interpolation_weights and Field::interpolate *)

\* Grid::interpolation_weights: the pair (left_weight, right_weight)
interpolation_weights(g, x) ==
    LET x_wrapped == wrap_position(g, x)
        idx == cell_index(g, x_wrapped)
        x_left == cell_left(g, idx)
        right_weight == FMul(FSub(x_wrapped, x_left), g.inv_dx_)
        left_weight == FSub(One, right_weight)
    IN  <<left_weight, right_weight>>

\* Field::interpolate, f being a Field on the Grid g
interpolate(f, g, x) ==
    LET idx == cell_index(g, x)
        w == interpolation_weights(g, x)
        idx_next == wrap_index(g, idx + 1)
    IN  FAdd(FMul(w[1], f.data_[idx + 1]), FMul(w[2], f.data_[idx_next + 1]))

\* the values of constant Fields, and a Field whose cell i holds i + 1
InterpVals == {One, 3 * One, 5 * One}
RampField(g) == [grid_ |-> "grid", data_ |-> [i \in 1..g.n_cells_ |-> ToFloat(i)]]
InterpFields(g) == {FieldOf(g, c) : c \in InterpVals} \cup {RampField(g)}

\* a Grid and a Field on it
InitInterp ==
    /\ grid \in DepositGrids
    /\ thrown = "none"
    /\ call = [op |-> "none"]
    /\ particles = NoParticles
    /\ field \in InterpFields(grid)
    /\ field2 = NoField

InterpolationWeights(x) ==
    /\ call.op = "none"
    /\ call' = [op |-> "interpolation_weights", arg |-> x,
                ret |-> interpolation_weights(grid, x)]
    /\ UNCHANGED <<grid, thrown, particles, field, field2>>

Interpolate(x) ==
    /\ call.op = "none"
    /\ call' = [op |-> "interpolate", arg |-> x, ret |-> interpolate(field, grid, x)]
    /\ UNCHANGED <<grid, thrown, particles, field, field2>>

NextInterp ==
    \/ \E x \in Positions : InterpolationWeights(x)
    \/ \E x \in Positions : Interpolate(x)

SpecInterp == InitInterp /\ [][NextInterp]_vars

----------------------------------------------------------------------------
(* Claims about interpolation *)

IsConstant(f) == \A i \in 1..Len(f.data_) : f.data_[i] = f.data_[1]

\* C11: on a constant Field (every cell equal to c) interpolate(x) returns c for
\* every position x, below x_min and beyond x_max included.
C11_InterpolateConstant ==
    (call.op = "interpolate" /\ IsConstant(field)) => call.ret = field.data_[1]

\* the periodic images of x: x + k * length, where that is a value of value_type
Images(g, x) ==
    {y \in {x + k * g.length_ : k \in -MaxPeriods..MaxPeriods} : IsFloat(y)}

\* C12: at x = cell_left(i), or a periodic image of it, interpolation_weights(x)
\* is exactly (1, 0) and interpolate(x) returns values[i] exactly.
C12_LeftEdgeExact ==
    \A i \in 0..(grid.n_cells_ - 1) :
        (call.op \in {"interpolation_weights", "interpolate"}
            /\ call.arg \in Images(grid, cell_left(grid, i))) =>
                IF call.op = "interpolate"
                THEN call.ret = field.data_[i + 1]
                ELSE call.ret = <<One, 0>>

\* C13: interpolate(x + k * length) = interpolate(x) for every integer k, and
\* for x in the last cell the result is w_left * values[n-1] + w_right * values[0].
C13_InterpolatePeriodic ==
    call.op = "interpolate" =>
        /\ \A y \in Images(grid, call.arg) : interpolate(field, grid, y) = call.ret
        /\ cell_index(grid, call.arg) = grid.n_cells_ - 1 =>
              LET w == interpolation_weights(grid, call.arg)
              IN  call.ret = FAdd(FMul(w[1], field.data_[grid.n_cells_]),
                                  FMul(w[2], field.data_[1]))

\* C14: interpolation_weights(x) returns (w_left, w_right) with
\* w_left + w_right = 1, w_right = (wrap_position(x) - cell_left(cell_index(x))) / dx,
\* and both weights in [0, 1].
C14_WeightsSumToOne ==
    call.op = "interpolation_weights" =>
        LET w_left == call.ret[1]
            w_right == call.ret[2]
            offset == FSub(wrap_position(grid, call.arg),
                           cell_left(grid, cell_index(grid, call.arg)))
        IN  /\ FAdd(w_left, w_right) = One
            /\ w_right = FDiv(offset, grid.dx_)
            /\ w_left >= 0 /\ w_left <= One
            /\ w_right >= 0 /\ w_right <= One

----------------------------------------------------------------------------
(* Claims about the cells of a deposition *)

\* the sum of f[i] / dx over the first k samples whose cell_index is c, added
\* in the order of the samples
RECURSIVE BinSum(_, _, _, _)
BinSum(p, g, c, k) ==
    IF k = 0 THEN 0
    ELSE IF cell_index(g, p.x_.d[k]) = c
         THEN FAdd(BinSum(p, g, c, k - 1), FDiv(p.f_.d[k], g.dx_))
         ELSE BinSum(p, g, c, k - 1)

\* C15: after compute_density, whatever the field held before, every cell c
\* holds the sum of f[i] / dx over exactly the samples i with cell_index(x[i]) = c,
\* and a cell with no sample holds 0.
C15_DepositBins ==
    call.op = "compute_density" =>
        \A c \in 0..(grid.n_cells_ - 1) :
            field.data_[c + 1] = BinSum(particles, grid, c, Size(particles))

----------------------------------------------------------------------------
(* The transport kernels, slot by slot: the loop bodies run in any order *)

\* a loop body that reads the position of the slot before
advance_position_slot_ReadsPrev(p, i, dt) ==
    [p EXCEPT !.x_.d[i] = FAdd(p.x_.d[IF i > 1 THEN i - 1 ELSE i], FMul(p.v_.d[i], dt))]

\* a loop body that leaves dt out
advance_position_slot_NoDt(p, i, dt) ==
    [p EXCEPT !.x_.d[i] = FAdd(p.x_.d[i], p.v_.d[i])]

\* a loop body whose increment grows with the slot
advance_velocity_slot_PerSlot(p, i, dv) ==
    [p EXCEPT !.v_.d[i] = FAdd(p.v_.d[i], FMul(dv, ToFloat(i)))]

\* advance_positions, the body of the loop for slot i
advance_position_slot(p, i, dt) ==
    [p EXCEPT !.x_.d[i] = FAdd(p.x_.d[i], FMul(p.v_.d[i], dt))]

\* advance_velocities, the body of the loop for slot i, dv being acceleration * dt
advance_velocity_slot(p, i, dv) ==
    [p EXCEPT !.v_.d[i] = FAdd(p.v_.d[i], dv)]

\* the samples the kernels are run on: at rest or moving, from 0 or 3.0
KernelSamples ==
    {<<x, v, One>> : x \in {0, 3 * One}, v \in {1, One, 13 * One}}
KernelSets ==
    UNION {{[SamplesOf([i \in 1..N |-> t[i][1]], [i \in 1..N |-> t[i][3]])
                EXCEPT !.v_.d = [i \in 1..N |-> t[i][2]]] :
            t \in [1..N -> KernelSamples]} : N \in 0..MaxParticles}
\* dt = 0.1 (rounded to value_type) and dt = 0.5
KernelSteps == {RN(One, 10), One \div 2}

InitKernels ==
    /\ grid = NoGrid
    /\ thrown = "none"
    /\ call = [op |-> "none"]
    /\ particles \in KernelSets
    /\ field = NoField
    /\ field2 = NoField

\* the calls made so far, and whether the last one has returned
Calls == IF call.op = "none" THEN 0 ELSE call.n
Returned == IF call.op = "none" THEN TRUE ELSE call.todo = {}

\* advance_positions is entered: the spans and n are taken. run counts the
\* calls with this dt made in a row, and start is the set before the first.
EnterAdvancePositions(dt) ==
    /\ Returned
    /\ Calls < MaxSteps
    /\ LET again == call.op = "advance_positions" /\ call.arg = <<dt>>
       IN  call' = [op |-> "advance_positions", arg |-> <<dt>>,
                    todo |-> 1..Size(particles), pre |-> particles,
                    run |-> IF again THEN call.run + 1 ELSE 1,
                    start |-> IF again THEN call.start ELSE particles,
                    n |-> Calls + 1]
    /\ UNCHANGED <<grid, thrown, particles, field, field2>>

\* advance_velocities is entered: dv is computed once
EnterAdvanceVelocities(acceleration, dt) ==
    /\ Returned
    /\ Calls < MaxSteps
    /\ call' = [op |-> "advance_velocities", arg |-> <<acceleration, dt>>,
                dv |-> FMul(acceleration, dt),
                todo |-> 1..Size(particles), pre |-> particles,
                run |-> 0, start |-> particles, n |-> Calls + 1]
    /\ UNCHANGED <<grid, thrown, particles, field, field2>>

\* one iteration of the loop of advance_positions, on any slot not yet done
SlotAdvancePositions(i) ==
    /\ call.op = "advance_positions"
    /\ i \in call.todo
    /\ particles' = advance_position_slot(particles, i, call.arg[1])
    /\ call' = [call EXCEPT !.todo = @ \ {i}]
    /\ UNCHANGED <<grid, thrown, field, field2>>

\* one iteration of the loop of advance_velocities, on any slot not yet done
SlotAdvanceVelocities(i) ==
    /\ call.op = "advance_velocities"
    /\ i \in call.todo
    /\ particles' = advance_velocity_slot(particles, i, call.dv)
    /\ call' = [call EXCEPT !.todo = @ \ {i}]
    /\ UNCHANGED <<grid, thrown, field, field2>>

NextKernels ==
    \/ \E dt \in KernelSteps : EnterAdvancePositions(dt)
    \/ \E a \in Accelerations : \E dt \in TimeSteps : EnterAdvanceVelocities(a, dt)
    \/ \E i \in 1..MaxParticles : SlotAdvancePositions(i)
    \/ \E i \in 1..MaxParticles : SlotAdvanceVelocities(i)

SpecKernels == InitKernels /\ [][NextKernels]_vars

----------------------------------------------------------------------------
(* Claims about the transport kernels *)

\* C16: advance_positions(particles, dt) sets every x[i] to x[i] + v[i] * dt and
\* leaves every v[i], every f[i] and size() unchanged, in whatever order the
\* slots are processed: a slot done holds its new position, a slot not yet done
\* its old one, and on return the set is what the loop in index order gives.
C16_AdvancePositions ==
    call.op = "advance_positions" =>
        /\ particles.v_ = call.pre.v_
        /\ particles.f_ = call.pre.f_
        /\ Size(particles) = Size(call.pre)
        /\ \A i \in 1..Size(particles) :
              particles.x_.d[i] =
                  IF i \in call.todo THEN call.pre.x_.d[i]
                  ELSE FAdd(call.pre.x_.d[i], FMul(call.pre.v_.d[i], call.arg[1]))
        /\ Returned => particles = advance_positions(call.pre, call.arg[1])

\* advance_positions has returned on a full set, every slot of which moved
C16_Witness ==
    /\ call.op = "advance_positions"
    /\ call.todo = {}
    /\ Size(particles) = MaxParticles
    /\ \A i \in 1..Size(particles) : particles.x_.d[i] # call.pre.x_.d[i]

\* C17: advance_velocities(particles, acceleration, dt) adds the one increment
\* acceleration * dt to every v[i], each sum rounded to value_type, and leaves
\* every x[i], every f[i] and size() unchanged.
C17_AdvanceVelocities ==
    call.op = "advance_velocities" =>
        /\ particles.x_ = call.pre.x_
        /\ particles.f_ = call.pre.f_
        /\ Len(particles.v_.d) = Len(call.pre.v_.d)
        /\ \A i \in 1..Size(particles) :
              particles.v_.d[i] =
                  IF i \in call.todo THEN call.pre.v_.d[i]
                  ELSE FAdd(call.pre.v_.d[i], FMul(call.arg[1], call.arg[2]))
        /\ Returned => particles = advance_velocities(call.pre, call.arg[1], call.arg[2])

\* advance_velocities has returned on a full set of samples of different velocities
C17_Witness ==
    /\ call.op = "advance_velocities"
    /\ call.todo = {}
    /\ Size(particles) = MaxParticles
    /\ \E i, j \in 1..Size(particles) : call.pre.v_.d[i] # call.pre.v_.d[j]
    /\ \A i \in 1..Size(particles) : particles.v_.d[i] # call.pre.v_.d[i]

\* C17 as stated: the differences v[i] - v[j] between samples are preserved
C17_DifferencesPreserved ==
    (call.op = "advance_velocities" /\ Returned) =>
        \A i, j \in 1..Size(particles) :
            particles.v_.d[i] - particles.v_.d[j] = call.pre.v_.d[i] - call.pre.v_.d[j]

\* the position x0 + k * vel * dt of sample i after the k calls of the run, exact,
\* in units of One, and the same with magnitudes in place of values
StreamedTo(i) ==
    call.start.x_.d[i] * One + call.run * call.start.v_.d[i] * call.arg[1]
StreamedSize(i) ==
    Abs(call.start.x_.d[i]) * One + call.run * Abs(call.start.v_.d[i] * call.arg[1])

\* C18: after k calls of advance_positions in a row with the step dt, a sample
\* that started at x0 with velocity vel is at x0 + k * vel * dt to within
\* rounding: each call rounds vel * dt and the sum, so the error is at most
\* (k+1)u / (1 - (k+1)u) of |x0| + k |vel * dt|, u = 2^-Prec, and half the
\* smallest positive value for each call (a product that underflows).
C18_FreeStreaming ==
    (call.op = "advance_positions" /\ Returned) =>
        \A i \in 1..Size(particles) :
            LET K == call.run + 1
            IN  Abs(particles.x_.d[i] * One - StreamedTo(i)) * (Pow2(Prec) - K)
                    <= K * StreamedSize(i) + call.run * (One \div 2) * Pow2(Prec)

\* MaxSteps calls with dt = 0.1 have returned, and a sample has moved
C18_Witness ==
    /\ call.op = "advance_positions"
    /\ call.todo = {}
    /\ call.run = MaxSteps
    /\ call.arg = <<RN(One, 10)>>
    /\ \E i \in 1..Size(particles) : particles.x_.d[i] # call.start.x_.d[i]

\* C18 as stated: the position is x0 + k * vel * dt
C18_FreeStreamingExact ==
    (call.op = "advance_positions" /\ Returned) =>
        \A i \in 1..Size(particles) : particles.x_.d[i] * One = StreamedTo(i)

----------------------------------------------------------------------------
(* The set as a stack: push_back and pop_back, the pushes kept as a history *)

\* the triples pushed (those of the tests)
PushTriples == {<<One, 2 * One, 3 * One>>, <<4 * One, 5 * One, 6 * One>>}

\* the two builds: assert compiled in, or compiled out by NDEBUG
Builds == {"assert", "NDEBUG"}

\* call.pushed is the history of the samples pushed and not popped since, call.pre
\* the set before the last push_back that returned, call.ub whether undefined
\* behaviour has happened
InitPush ==
    /\ grid = NoGrid
    /\ thrown = "none"
    /\ \E build \in Builds :
          call = [op |-> "Particles", arg |-> <<>>, pushed |-> <<>>,
                  pre |-> NoParticles, build |-> build, ub |-> FALSE]
    /\ \E capacity \in {0, MaxPush} : particles = reserve(NoParticles, capacity)
    /\ field = NoField
    /\ field2 = NoField

\* the process has neither aborted nor run into undefined behaviour
Running == thrown # "abort" /\ ~call.ub

\* what std::vector::pop_back leaves of an empty vector: undefined, any size from
\* none to all the storage can hold (MaxPush stands for it) of any values
PoppedEmpty(vec) == {vec, [vec EXCEPT !.d = Fill(MaxPush, 0)]}

\* std::vector::pop_back, with its outcomes on an empty vector
PopOutcomes(vec) == IF Len(vec.d) > 0 THEN {VecPopBack(vec)} ELSE PoppedEmpty(vec)

\* the outcomes of the three pop_back calls on a set some vector of which is empty
UndefinedPops(p) ==
    [x_ : PopOutcomes(p.x_), v_ : PopOutcomes(p.v_), f_ : PopOutcomes(p.f_)]

\* push_back(x_val, v_val, f_val): returns, or throws from the vector that allocates
PushBackStep(t) ==
    /\ Running
    /\ \A k \in 1..3 : Len(Member(particles, k).d) < MaxPush
    /\ \/ /\ particles' = push_back(particles, t)
          /\ thrown' = "none"
          /\ call' = [call EXCEPT !.op = "push_back", !.arg = t,
                                  !.pushed = Append(@, t), !.pre = particles]
       \/ \E k \in 1..3 :
          /\ PushAllocates(Member(particles, k))
          /\ particles' = ThrowsAt(particles, push_back(particles, t), k)
          /\ thrown' = "bad_alloc"
          /\ call' = [call EXCEPT !.op = "push_back", !.arg = t]
    /\ UNCHANGED <<grid, field, field2>>

\* pop_back(): the assert stops an empty set where it is compiled in; the three
\* std::vector::pop_back calls follow, undefined on a vector that is empty
PopBackStep ==
    /\ Running
    /\ IF Size(particles) = 0 /\ call.build = "assert"
       THEN /\ particles' = particles
            /\ thrown' = "abort"
            /\ call' = [call EXCEPT !.op = "pop_back", !.arg = <<>>]
       ELSE IF \A k \in 1..3 : Len(Member(particles, k).d) > 0
       THEN /\ particles' = pop_back(particles)
            /\ thrown' = "none"
            /\ call' = [call EXCEPT !.op = "pop_back", !.arg = <<>>,
                           !.pushed = SubSeq(@, 1, Max(Len(@), 1) - 1)]
       ELSE /\ particles' \in UndefinedPops(particles)
            /\ thrown' \in {"none", "abort"}
            /\ call' = [call EXCEPT !.op = "pop_back", !.arg = <<>>, !.ub = TRUE]
    /\ UNCHANGED <<grid, field, field2>>

NextPush ==
    \/ \E t \in PushTriples : PushBackStep(t)
    \/ PopBackStep

SpecPush == InitPush /\ [][NextPush]_vars

\* sample i of the set, as a triple
SampleOf(p, i) == <<p.x_.d[i], p.v_.d[i], p.f_.d[i]>>

\* C21: a push_back(x, v, f) that returns appends x to x_, v to v_ and f to f_
\* and changes nothing before them: size s becomes s + 1, and on a set of equal
\* lengths sample s is (x, v, f) at the one index and samples 0..s-1 are as
\* before; so a set of equal lengths holds, at each index i, the i-th triple
\* pushed (and not popped since).
C21_PushBack ==
    /\ [][(call'.op = "push_back" /\ thrown' = "none") =>
             /\ Size(particles') = Size(particles) + 1
             /\ \A k \in 1..3 :
                   Member(particles', k).d = Append(Member(particles, k).d, call'.arg[k])
             /\ SameLen(particles) =>
                   /\ SameLen(particles')
                   /\ SampleOf(particles', Size(particles) + 1) = call'.arg
                   /\ \A i \in 1..Size(particles) :
                         SampleOf(particles', i) = SampleOf(particles, i)]_vars
    /\ [](SameLen(particles) /\ Running =>
             /\ Size(particles) = Len(call.pushed)
             /\ \A i \in 1..Size(particles) : SampleOf(particles, i) = call.pushed[i])

\* MaxPush samples have been pushed, not all the same, and the last push_back
\* has returned
C21_Witness ==
    /\ call.op = "push_back"
    /\ thrown = "none"
    /\ SameLen(particles)
    /\ Size(particles) = MaxPush
    /\ Len(call.pushed) = MaxPush
    /\ call.pushed[1] # call.pushed[2]
    /\ call.pushed[MaxPush] = call.arg

\* C22: pop_back on a set of s > 0 samples (none of x_, v_, f_ empty) returns
\* and removes the last element of each, leaving size s - 1 and the elements
\* before it unchanged, so a push_back followed by a pop_back leaves the contents
\* that were there before the push_back; pop_back on an empty set aborts at
\* the assert, the set unchanged, in a build that compiles the assert in.
C22_PopBack ==
    /\ [][call'.op = "pop_back" =>
             IF \A k \in 1..3 : Len(Member(particles, k).d) > 0
             THEN /\ thrown' = "none"
                  /\ Size(particles') = Size(particles) - 1
                  /\ \A k \in 1..3 :
                        Member(particles', k).d =
                            SubSeq(Member(particles, k).d, 1, Len(Member(particles, k).d) - 1)
             ELSE (Size(particles) = 0 /\ call.build = "assert") =>
                      (thrown' = "abort" /\ particles' = particles)]_vars
    /\ [][(call.op = "push_back" /\ thrown = "none" /\ call'.op = "pop_back") =>
             /\ thrown' = "none"
             /\ \A k \in 1..3 : Member(particles', k).d = Member(call.pre, k).d]_vars

\* a pop_back has undone the push_back of a second sample
C22_Witness ==
    /\ call.op = "pop_back"
    /\ thrown = "none"
    /\ Running
    /\ SameLen(particles)
    /\ Size(call.pre) = 1
    /\ \A k \in 1..3 : Member(particles, k).d = Member(call.pre, k).d

\* C22 as stated: pop_back on a non-empty set removes the last sample, and pop_back
\* on an empty set is never a normal, state-changing outcome
C22_PopEmptyNeverNormal ==
    [][call'.op = "pop_back" =>
          IF Size(particles) > 0 /\ SameLen(particles)
          THEN /\ thrown' = "none"
               /\ Size(particles') = Size(particles) - 1
               /\ \A i \in 1..Size(particles') : SampleOf(particles', i) = SampleOf(particles, i)
          ELSE Size(particles) = 0 => ~(thrown' = "none" /\ particles' # particles)]_vars

----------------------------------------------------------------------------
(* compute_density, one iteration of its loop per step *)

\* the loop body for sample p: one read-modify-write of the cell of x[p]
deposit_one(density, prt, g, inv_dx, p) ==
    LET i == cell_index(g, prt.x_.d[p])
    IN  [density EXCEPT !.data_[i + 1] = FAdd(@, FMul(prt.f_.d[p], inv_dx))]

\* two cells of width 1 or 1/2, samples in either cell, and weights a sum of
\* which is rounded: 2^(Prec-1), 1/2 and 1
AccumulateGrids == {GridMembers(2, 0, 2 * One), GridMembers(2, 0, One)}
AccumulateWeights == {Pow2(Prec - 1) * One, One \div 2, One}
AccumulateSets ==
    UNION {{SamplesOf(xs, fs) : xs \in [1..N -> {0, 3 * (One \div 4)}],
                                fs \in [1..N -> AccumulateWeights]} :
           N \in 0..MaxDeposits}

InitAccumulate ==
    /\ grid \in AccumulateGrids
    /\ thrown = "none"
    /\ call = [op |-> "none"]
    /\ particles \in AccumulateSets
    /\ field = FieldOf(grid, One)
    /\ field2 = NoField

\* compute_density is entered: the density is cleared and inv_dx computed; the
\* loop starts at sample 0 (p counts the samples done)
EnterComputeDensity ==
    /\ call.op = "none"
    /\ field' = zero(field)
    /\ call' = [op |-> "compute_density", inv_dx |-> FDiv(One, grid.dx_), p |-> 0]
    /\ UNCHANGED <<grid, thrown, particles, field2>>

\* one iteration of the loop, in index order
DepositStep ==
    /\ call.op = "compute_density"
    /\ call.p < Size(particles)
    /\ field' = deposit_one(field, particles, grid, call.inv_dx, call.p + 1)
    /\ call' = [call EXCEPT !.p = @ + 1]
    /\ UNCHANGED <<grid, thrown, particles, field2>>

NextAccumulate ==
    \/ EnterComputeDensity
    \/ DepositStep

SpecAccumulate == InitAccumulate /\ [][NextAccumulate]_vars

\* the orders in which n samples can be accumulated
Orders(n) == {ord \in [1..n -> 1..n] : \A i, j \in 1..n : ord[i] = ord[j] => i = j}

\* the sum of f / dx over the samples of cell c among the first k of the order
\* ord, accumulated in that order
RECURSIVE OrderedBinSum(_, _, _, _, _)
OrderedBinSum(p, g, c, ord, k) ==
    IF k = 0 THEN 0
    ELSE IF cell_index(g, p.x_.d[ord[k]]) = c
         THEN FAdd(OrderedBinSum(p, g, c, ord, k - 1), FDiv(p.f_.d[ord[k]], g.dx_))
         ELSE OrderedBinSum(p, g, c, ord, k - 1)

\* C23: when compute_density has returned, every cell holds the contributions
\* f[i] / dx of all the samples that map to it, and holds the same value for
\* every order in which those samples are accumulated.
C23_NoLostUpdates ==
    (call.op = "compute_density" /\ call.p = Size(particles)) =>
        \A c \in 0..(grid.n_cells_ - 1) : \A ord \in Orders(Size(particles)) :
            field.data_[c + 1] = OrderedBinSum(particles, grid, c, ord, Size(particles))

----------------------------------------------------------------------------
(* The driver: initialize_particles, the initial density, and the time loop *)

\* Grid::cell_center
cell_center(g, i) == FAdd(g.x_min_, FMul(FAdd(ToFloat(i), One \div 2), g.dx_))

\* apply_periodic_bc that also stops the samples
apply_periodic_bc_Stops(p, g) ==
    [p EXCEPT !.x_.d = [i \in 1..Len(p.x_.d) |-> wrap_position(g, p.x_.d[i])],
              !.v_.d = [i \in 1..Len(p.v_.d) |-> 0]]

\* apply_periodic_bc: x[p] = grid.wrap_position(x[p]) for each p below size()
apply_periodic_bc(p, g) ==
    [p EXCEPT !.x_.d = [i \in 1..Len(p.x_.d) |-> wrap_position(g, p.x_.d[i])]]

\* initialize_particles: n_v samples at the centre of each cell, the velocities
\* v_min + (j + 0.5) * dv across -4 v_thermal .. 4 v_thermal. The weight of
\* sample (i, j) is a product of values of exp, cos and sqrt: fs gives it.
initialize_particles(g, n_v, v_thermal, fs) ==
    LET total_particles == g.n_cells_ * n_v
        v_min == FMul(-(4 * One), v_thermal)
        v_max == FMul(4 * One, v_thermal)
        dv == FDiv(FSub(v_max, v_min), ToFloat(n_v))
        cell(k) == (k - 1) \div n_v
        point(k) == (k - 1) % n_v
    IN  [x_ |-> [d |-> [k \in 1..total_particles |-> cell_center(g, cell(k))],
                 cap |-> total_particles],
         v_ |-> [d |-> [k \in 1..total_particles |->
                           FAdd(v_min, FMul(FAdd(ToFloat(point(k)), One \div 2), dv))],
                 cap |-> total_particles],
         f_ |-> [d |-> fs, cap |-> total_particles]]

\* the grids of the driver (x_min = 0), the samples per cell, the thermal
\* velocities, the weights and the time steps (0.1 rounded, and 0.5)
DriverGrids == {GridMembers(n, 0, b) : n \in 1..3, b \in {One, 2 * One, 3 * One}}
DriverPoints == {1, 2}
DriverThermal == {One, One \div 4}
DriverWeights == {One, 9 * (One \div 8)}
DriverSteps == KernelSteps

\* main up to the time loop: the Grid, the density Field on it, the particles
InitDriver ==
    /\ grid \in DriverGrids
    /\ thrown = "none"
    /\ field = FieldOf(grid, 0)
    /\ field2 = NoField
    /\ \E n_v \in DriverPoints : \E v_thermal \in DriverThermal :
       \E fs \in [1..(grid.n_cells_ * n_v) -> DriverWeights] :
          particles = initialize_particles(grid, n_v, v_thermal, fs)
    /\ \E dt \in DriverSteps :
          call = [op |-> "initialize_particles", step |-> 0, dt |-> dt,
                  start |-> particles, density0 |-> field]

\* compute_density(particles, grid, density) before the loop
InitialDensity ==
    /\ call.op = "initialize_particles"
    /\ field' = compute_density(particles, grid, field)
    /\ call' = [call EXCEPT !.op = "compute_density", !.density0 = field']
    /\ UNCHANGED <<grid, thrown, particles, field2>>

\* the loop is entered for the next step: advance_positions(particles, dt)
StepAdvancePositions ==
    /\ call.op = "compute_density"
    /\ call.step < MaxDriverSteps
    /\ particles' = advance_positions(particles, call.dt)
    /\ call' = [call EXCEPT !.op = "advance_positions", !.step = @ + 1]
    /\ UNCHANGED <<grid, thrown, field, field2>>

\* apply_periodic_bc(particles, grid)
StepApplyPeriodicBc ==
    /\ call.op = "advance_positions"
    /\ particles' = apply_periodic_bc(particles, grid)
    /\ call' = [call EXCEPT !.op = "apply_periodic_bc"]
    /\ UNCHANGED <<grid, thrown, field, field2>>

\* compute_density(particles, grid, density), which ends the step
StepComputeDensity ==
    /\ call.op = "apply_periodic_bc"
    /\ field' = compute_density(particles, grid, field)
    /\ call' = [call EXCEPT !.op = "compute_density"]
    /\ UNCHANGED <<grid, thrown, particles, field2>>

NextDriver ==
    \/ InitialDensity
    \/ StepAdvancePositions
    \/ StepApplyPeriodicBc
    \/ StepComputeDensity

SpecDriver == InitDriver /\ [][NextDriver]_vars

\* every position of the set lies in [x_min, x_max)
InDomain == \A i \in 1..Size(particles) : contains(grid, particles.x_.d[i])


----------------------------------------------------------------------------
(* The cells interpolate reads and compute_density writes *)

\* a position that is not a number: a NaN or an infinity, which wrap_position
\* (fmod) turns into a NaN
NaN == Inf + 1

\* the clamp of cell_index, applied to the value the cast left
clamp_cell(g, idx0) ==
    LET idx1 == IF idx0 < 0 THEN 0 ELSE idx0
    IN  IF idx1 >= g.n_cells_ THEN g.n_cells_ - 1 ELSE idx1

\* the cast of a NaN to std::ptrdiff_t is undefined: it leaves any integer
NaNCasts(g) == {-MaxIdx, -1, 0, g.n_cells_ - 1, g.n_cells_, MaxIdx}

\* the indices cell_index can return for x
CellsOf(g, x) ==
    IF x = NaN THEN {clamp_cell(g, idx0) : idx0 \in NaNCasts(g)}
    ELSE {cell_index(g, x)}

\* the positions of the samples deposited: inside, outside and at the edges of
\* the domain, the smallest values either side of zero, and the largest
AccessPositions ==
    {-1, 0, 1, -(MaxPos * One), MaxPos * One, Pow2(Prec - 1) * MaxPos * One}
AccessSets ==
    UNION {{SamplesOf(xs, Fill(N, One)) : xs \in [1..N -> AccessPositions]} : N \in 0..MaxParticles}
        \cup {SamplesOf(<<NaN>>, <<One>>)}

\* a Grid (of one cell or more) and a Field on it
InitAccess ==
    /\ grid \in DepositGrids
    /\ thrown = "none"
    /\ call = [op |-> "none"]
    /\ particles = NoParticles
    /\ field \in {FieldOf(grid, One), RampField(grid)}
    /\ field2 = NoField

\* interpolate(x): reads records the indices of data_ read, size the size of
\* data_; a read outside data_ is undefined and returns anything
InterpolateAt(x) ==
    /\ call.op = "none"
    /\ \E idx \in CellsOf(grid, x) :
          LET reads == {idx, wrap_index(grid, idx + 1)}
          IN  call' = [op |-> "interpolate", arg |-> x,
                       reads |-> reads, writes |-> {}, size |-> Len(field.data_),
                       ret |-> IF x # NaN /\ reads \subseteq 0..(Len(field.data_) - 1)
                               THEN interpolate(field, grid, x) ELSE NaN]
    /\ UNCHANGED <<grid, thrown, particles, field, field2>>

\* compute_density(prt, grid, density): writes records the indices of density
\* written; a write outside data_ is undefined and leaves anything
ComputeDensityAt(prt) ==
    /\ call.op = "none"
    /\ \E idx \in CellsOf(grid, NaN) :
          LET nan == \E k \in 1..Size(prt) : prt.x_.d[k] = NaN
              writes == IF nan THEN {idx}
                        ELSE {cell_index(grid, prt.x_.d[k]) : k \in 1..Size(prt)}
          IN  /\ call' = [op |-> "compute_density", arg |-> prt,
                          reads |-> writes, writes |-> writes,
                          size |-> Len(field.data_), ret |-> 0]
              /\ IF ~(writes \subseteq 0..(Len(field.data_) - 1))
                 THEN field' \in {field, zero(field)}
                 ELSE IF nan
                 THEN field' = [zero(field) EXCEPT !.data_[idx + 1] =
                                   FAdd(0, FMul(prt.f_.d[1], FDiv(One, grid.dx_)))]
                 ELSE field' = compute_density(prt, grid, field)
    /\ UNCHANGED <<grid, thrown, particles, field2>>

NextAccess ==
    \/ \E x \in Positions \cup AccessPositions \cup {NaN} : InterpolateAt(x)
    \/ \E prt \in AccessSets : ComputeDensityAt(prt)

SpecAccess == InitAccess /\ [][NextAccess]_vars

\* C25: on every Grid, of one cell or more, whatever the position (finite or
\* not), interpolate reads only data_[idx] and data_[idx_next] with both indices
\* in [0, n-1], compute_density writes only to indices in [0, n-1], and on a
\* Field built on the Grid every such index is below the size of data_.
C25_AccessInRange ==
    call.op \in {"interpolate", "compute_density"} =>
        /\ call.reads \subseteq 0..(grid.n_cells_ - 1)
        /\ call.writes \subseteq 0..(grid.n_cells_ - 1)
        /\ call.reads \cup call.writes \subseteq 0..(call.size - 1)
        /\ call.op = "interpolate" => Cardinality(call.reads) <= 2

\* interpolate has read the last cell and, wrapping round, the first
C25_Witness ==
    /\ call.op = "interpolate"
    /\ grid.n_cells_ > 1
    /\ call.arg # NaN
    /\ ~contains(grid, call.arg)
    /\ call.reads = {grid.n_cells_ - 1, 0}


----------------------------------------------------------------------------
(* Claims about the whole run of the driver *)

\* C26: through the whole run the number of samples, every velocity and every
\* weight stay as initialize_particles left them (only positions change), and
\* after the initial deposition and after that of every step the sum over the
\* cells of field[i] * dx is the total weight to within rounding: for N samples
\* the relative error is at most (N+1)u / (1 - (N+1)u), u = 2^-Prec.
C26_DriverConserves ==
    /\ Size(particles) = Size(call.start)
    /\ particles.v_ = call.start.v_
    /\ particles.f_ = call.start.f_
    /\ call.op = "compute_density" =>
          LET K == Size(particles) + 1
          IN  Abs(Deposited - TotalWeight) * (Pow2(Prec) - K) <= K * TotalWeight

\* the last step of the run has ended: moving samples have changed cells and
\* the density differs from the initial one
C26_Witness ==
    /\ call.op = "compute_density"
    /\ call.step = MaxDriverSteps
    /\ Size(particles) > 1
    /\ \E i \in 1..Size(particles) :
          /\ particles.v_.d[i] # 0
          /\ cell_index(grid, particles.x_.d[i]) # cell_index(grid, call.start.x_.d[i])
    /\ field # call.density0

\* C26 as stated: after every step the deposited total is the same as after the
\* initial deposition
C26_TotalUnchanged ==
    (call.op = "compute_density" /\ call.step > 0) =>
        /\ Size(particles) = Size(call.start)
        /\ particles.v_ = call.start.v_
        /\ particles.f_ = call.start.f_
        /\ SumSeq(field.data_) * grid.dx_ = SumSeq(call.density0.data_) * grid.dx_

====
